---- MODULE Spec2Model ----
(***************************************************************************)
(* BuildHandler of binderhub/builder.py: one GET /build/<provider>/<spec>  *)
(* request, from BuildHandler.get to the end of the response, with the     *)
(* client (which may disconnect) and the external builder (which puts      *)
(* events on the queue) as the environment.                                *)
(*                                                                         *)
(* An action is the code between two suspension points (await) of the      *)
(* handler.  `frames` is the sequence of data frames handed to self.write: *)
(* write only buffers, the StreamClosedError of a closed connection comes  *)
(* from flush, and emit turns it into Finish.  An exception that leaves    *)
(* get is handled by the framework in the same callback: Finish ends the   *)
(* response, any other exception goes to send_error; a plain return ends   *)
(* the response too.  Every end of the response runs on_finish.            *)
(*                                                                         *)
(* Spec is the handler with the client and the builder; SpecKeepAlive adds *)
(* the keep_alive task spawned by get, and SpecLive the fairness of the    *)
(* IOLoop to that; SpecNames applies the name                              *)
(* functions (_safe_build_slug, _generate_build_name, the image name of    *)
(* get) to every input of the bounded sets.                                *)
(***************************************************************************)
EXTENDS Integers, Sequences, FiniteSets, TLC

\* ------------------------------------------------------------------ bounds
MaxEvents == 3      \* events the builder puts on the queue in one build
Retries == 3        \* launcher.retries
RetryDelay == 1     \* launcher.retry_delay
MaxPods == 1        \* pods in the pod list; the quota is at most this
MaxKeepalives == 2  \* ':keepalive' chunks written in one request
MaxSlugSafe == 2    \* characters of a build slug that escape leaves as they are
MaxSlugUnsafe == 85 \* characters of a build slug that escape replaces
MaxRefSafe == 7     \* the same of a resolved ref
MaxRefUnsafe == 1
MaxPrefixLen == 10  \* len(image_prefix)

\* the registry probe: for _ in range(3)
ProbeAttempts == 3

\* the numbers of the name functions
BuildNameLimit == 63    \* limit=63
RefLength == 6          \* ref_length=6
HashLength == 6         \* hash_length=6
RefHashLength == 2      \* hash_length=2 for the ref
BuildPrefixLen == 6     \* len('build-')
ImageNameLimit == 255   \* limit=255 - len(image_prefix)
Sha256HexLen == 64      \* len(hashlib.sha256(...).hexdigest())
EscapedCharLen == 3     \* escape_char='-' and two hex digits

\* ------------------------------------------------------------- the inputs
PodPhases == {"Pending", "Running", "Succeeded", "Deleted", "Failed"}
LogPhases == {"building", "failure", "failed"}

\* BuildEvent: what the builder puts on the queue.  A log payload is a JSON
\* text; it is represented by the record json.loads returns for it.
BuildEvents ==
    [kind : {"pod.phasechange"}, payload : PodPhases]
        \cup [kind : {"log"}, payload : [phase : LogPhases]]

\* container images of a listed pod: <<name, tag>>
Mine == "mine"
Images == {<<Mine, "t1">>, <<Mine, "t2">>, <<"other", "t1">>}
PodKinds ==
    {<<c>> : c \in Images}
        \cup {<<<<"other", "t1">>, <<Mine, "t2">>>>, <<<<Mine, "t1">>, <<Mine, "t2">>>>}

\* no input is pending
NoInput == [pending |-> FALSE]

RECURSIVE SeqsUpTo(_, _)
SeqsUpTo(S, n) ==
    IF n = 0 THEN {<<>>}
    ELSE LET shorter == SeqsUpTo(S, n - 1)
         IN  shorter \cup {Append(s, x) : s \in {t \in shorter : Len(t) = n - 1}, x \in S}

VARIABLES
    pc,                 \* where the handler is suspended
    exit,               \* how the handler ended: "none", "return", "finish", "error"
    frames,             \* data frames written, in order
    closed,             \* the client has closed the connection
    q,                  \* tornado Queue fed by the builder
    nput,               \* events the builder has put so far
    done, failed,       \* locals of the build loop
    log_future,         \* number of build.stream_logs submissions
    build,              \* self.build is set
    build_stops,        \* calls of build.stop()
    image_found,
    probe_try,          \* passes made of the registry loop, 0 outside it
    reply,              \* the answer of the registry to the pending call, or "none"
    repo_token,         \* self.repo_token: "unset", "None", "stored", "request"
    inprogress_builds, inprogress_launches,     \* gauges
    build_time, build_count,                    \* observations, in order
    launch_time, launch_count,
    quota, matching_pods,
    i,                  \* attempt index of the launch loop
    launch_calls,       \* calls of launcher.launch
    launch_ok,          \* a call of launcher.launch has returned
    launch_ends,        \* how launch() ended: "none", "quota", "ready", "raised", "finish"
    retry_delay, sleeps,
    audit,              \* event_log.emit records with status success
    tail_slept,
    auth_in,            \* what the auth block is about to read, or NoInput
    registered,         \* tokenstore.register_token has been called
    launch_args,        \* extra_args['repo_token'] of each call of launcher.launch
    keepalive,          \* self._keepalive: "unset", "true", "false"
    ka_pc,              \* the keep_alive task: "none", "spawned", "sleeping",
                        \* "returned", "raised"
    ka_frames,          \* ':keepalive' chunks written
    name_in,            \* the strings given to the name functions, or NoInput
    build_name_len,     \* len(_generate_build_name(...)), -1 before the call
    image_name_len      \* len(image_name), -1 before it is computed

vars == <<pc, exit, frames, closed, q, nput, done, failed, log_future, build,
          build_stops, image_found, probe_try, reply, repo_token, inprogress_builds,
          inprogress_launches, build_time, build_count, launch_time, launch_count,
          quota, matching_pods, i, launch_calls, launch_ok, launch_ends,
          retry_delay, sleeps, audit, tail_slept, auth_in, registered, launch_args,
          keepalive, ka_pc, ka_frames, name_in, build_name_len, image_name_len>>

\* groups of variables, for UNCHANGED
buildVars  == <<q, nput, done, failed, log_future>>
probeVars  == <<image_found, probe_try, reply>>
gaugeVars  == <<inprogress_builds, inprogress_launches>>
bmetrics   == <<build_time, build_count>>
lmetrics   == <<launch_time, launch_count>>
launchVars == <<quota, matching_pods, i, launch_calls, launch_ok, launch_ends,
                retry_delay, sleeps, launch_args>>
tailVars   == <<audit, tail_slept>>
finishVars == <<build_stops, keepalive>>
authIO     == <<auth_in, registered>>
nameVars   == <<name_in, build_name_len, image_name_len>>
sideVars   == <<authIO, ka_pc, ka_frames, nameVars>>

\* ------------------------------------------------------------------ frames
\* n is the attempt number of a 'Launch attempt n failed' frame, 0 elsewhere
FrameN(src, phase, n) == [src |-> src, phase |-> phase, n |-> n]
Frame(src, phase) == FrameN(src, phase, 0)

\* fail(): emit {"phase": "failed", "message": ...}
FailFrame == Frame("fail", "failed")

\* send_error: the 'failed' event written for an exception
SendErrorFrame == Frame("send_error", "failed")

\* the first frame of launch(): {"phase": "launching", "message": "Launching server..."}
LaunchingFramesNone == <<>>
LaunchingFrames == <<Frame("launch", "launching")>>

IsTerminal(f) == f.phase \in {"ready", "failed"}

\* ---------------------------------------------------- the pure decisions
\* payload.get('phase') in ('failure', 'failed')
IsFailurePhase(p) == p \in {"failure", "failed"}

\* if not failed: ... launch
ShouldLaunchAlways(f) == TRUE
ShouldLaunch(f) == ~f

\* Gauge.track_inprogress(): inc on entry, dec on every exit of the block
TrackEnter(g) == g + 1
TrackExitLeak(g) == g
TrackExit(g) == g - 1

\* container["image"].rsplit(":", 1)[0]
NoTag(image) == image[1]

\* for pod in pods["items"]: ... matching_pods += 1; break
RECURSIVE MatchingPods(_)
MatchingPods(pods) ==
    IF pods = <<>> THEN 0
    ELSE (IF \E c \in 1..Len(Head(pods)) : NoTag(Head(pods)[c]) = Mine THEN 1 ELSE 0)
            + MatchingPods(Tail(pods))

\* if quota and matching_pods >= quota
QuotaExceededStrict(qu, m) == qu # 0 /\ m > qu
QuotaExceeded(qu, m) == qu # 0 /\ m >= qu

\* if i + 1 == launcher.retries
IsLastAttemptOff(n) == n = Retries
IsLastAttempt(n) == n + 1 = Retries

\* retry_delay *= 2
BackoffNone(d) == d
Backoff(d) == d * 2

\* for _ in range(3)
ProbeAgainOnceMore(calls) == calls < ProbeAttempts + 1
ProbeAgain(calls) == calls < ProbeAttempts

\* if image_found: ... else the build
ImageHitNever(found) == FALSE
ImageHit(found) == found

\* ------------------------------------------------------ the name functions
\* A string is known by the number of its characters that escape keeps
\* (ascii letters and digits) and the number it replaces (taken as one-byte
\* characters); the name functions are computed on lengths.
Strs(maxSafe, maxUnsafe) == [safe : 0..maxSafe, unsafe : 0..maxUnsafe]

\* len(s)
StrLen(s) == s.safe + s.unsafe

\* len(escapism.escape(s, safe=safe_chars, escape_char='-'))
EscapeLen(s) == s.safe + EscapedCharLen * s.unsafe

\* len(x[:stop]) for len(x) = n: a negative stop counts from the end
SliceLenWhole(n, stop) == n
SliceLen(n, stop) ==
    IF stop >= 0 THEN (IF n < stop THEN n ELSE stop)
    ELSE (IF n + stop > 0 THEN n + stop ELSE 0)

\* len(_safe_build_slug(build_slug, limit, hash_length)):
\* '{name}-{hash}' with name = escape(build_slug)[:limit - hash_length - 1]
\* and hash = build_slug_hash[:hash_length]
safe_build_slug_len(build_slug, limit, hash_length) ==
    SliceLen(EscapeLen(build_slug), limit - hash_length - 1)
        + 1 + SliceLen(Sha256HexLen, hash_length)

\* len(_generate_build_name(build_slug, ref, prefix, limit, ref_length)):
\* '{prefix}{safe_slug}-{ref}' with ref cut to ref[:ref_length]
generate_build_name_len(build_slug, ref, prefix_len, limit, ref_length) ==
    prefix_len
        + safe_build_slug_len(build_slug, limit - prefix_len - ref_length - 1, HashLength)
        + 1
        + SliceLen(safe_build_slug_len(ref, ref_length, RefHashLength), ref_length)

\* len(image_name): '{prefix}{build_slug}:{ref}' with
\* build_slug = _safe_build_slug(slug, limit=255 - len(image_prefix))
image_name_len_of(prefix_len, build_slug, ref) ==
    prefix_len
        + safe_build_slug_len(build_slug, ImageNameLimit - prefix_len, HashLength)
        + 1
        + StrLen(ref)

\* the build slug and the ref of a provider, the configured image prefix
NameInputs ==
    [slug : Strs(MaxSlugSafe, MaxSlugUnsafe), ref : Strs(MaxRefSafe, MaxRefUnsafe),
     prefix_len : 0..MaxPrefixLen]

\* ------------------------------------------------------- end of a request
\* finish() -> on_finish(): self._keepalive = False; build.stop() if self.build
OnFinishNoStop(hasBuild) ==
    /\ keepalive' = "false"
    /\ build_stops' = build_stops

OnFinish(hasBuild) ==
    /\ keepalive' = "false"
    /\ build_stops' = IF hasBuild THEN build_stops + 1 ELSE build_stops

\* the handler ends: `how` is "return" (get returned), "finish" (emit raised
\* Finish) or "error" (another exception: send_error writes its frame)
Ends(how, written, hasBuild) ==
    /\ pc' = "done"
    /\ exit' = how
    /\ frames' = IF how = "error" THEN Append(written, SendErrorFrame) ELSE written
    /\ OnFinish(hasBuild)

\* await self.emit(f) as the last statement before `return`
EmitAndReturn(f) ==
    Ends(IF closed THEN "finish" ELSE "return", Append(frames, f), build)

\* the state after construction, but for pc and name_in
InitRest ==
    /\ exit = "none"
    /\ frames = <<>>
    /\ closed = FALSE
    /\ q = <<>>
    /\ nput = 0
    /\ done = FALSE
    /\ failed = FALSE
    /\ log_future = 0
    /\ build = FALSE
    /\ build_stops = 0
    /\ image_found = FALSE
    /\ probe_try = 0
    /\ reply = "none"
    /\ repo_token = "unset"
    /\ inprogress_builds = 0
    /\ inprogress_launches = 0
    /\ build_time = <<>>
    /\ build_count = <<>>
    /\ launch_time = <<>>
    /\ launch_count = <<>>
    /\ quota = 0
    /\ matching_pods = 0
    /\ i = 0
    /\ launch_calls = 0
    /\ launch_ok = FALSE
    /\ launch_ends = "none"
    /\ retry_delay = RetryDelay
    /\ sleeps = <<>>
    /\ audit = 0
    /\ tail_slept = FALSE
    /\ auth_in = NoInput
    /\ registered = FALSE
    /\ launch_args = <<>>
    /\ keepalive = "unset"
    /\ ka_pc = "none"
    /\ ka_frames = 0
    /\ build_name_len = -1
    /\ image_name_len = -1

Init ==
    /\ pc = "start"
    /\ name_in = NoInput
    /\ InitRest

\* the name functions alone, on every input of the bounded sets
InitNames ==
    /\ pc = "names"
    /\ name_in \in NameInputs
    /\ InitRest

\* ------------------------------------------------------- the environment
\* the client closes the connection
ClientDisconnect ==
    /\ pc # "done"
    /\ ~closed
    /\ closed' = TRUE
    /\ UNCHANGED <<pc, exit, frames, build, finishVars, repo_token, sideVars>>
    /\ UNCHANGED <<buildVars, probeVars, gaugeVars, bmetrics, lmetrics, launchVars, tailVars>>

\* the builder puts an event on the queue
BuilderPut ==
    /\ pc = "build_loop"
    /\ nput < MaxEvents
    /\ \E e \in BuildEvents : q' = Append(q, e)
    /\ nput' = nput + 1
    /\ UNCHANGED <<pc, exit, frames, closed, sideVars, done, failed, log_future, build, finishVars,
                   repo_token>>
    /\ UNCHANGED <<probeVars, gaugeVars, bmetrics, lmetrics, launchVars, tailVars>>

\* ------------------------------------------------- get: before the probe
\* if provider_prefix not in self.settings['repo_providers']: fail, return;
\* otherwise the keepalive is spawned and get goes on
ProviderCheck ==
    /\ pc = "start"
    /\ \E known \in BOOLEAN :
        IF ~known
        THEN /\ EmitAndReturn(FailFrame)
             /\ UNCHANGED ka_pc
        ELSE /\ pc' = "provider"
             /\ ka_pc' = "spawned"
             /\ UNCHANGED <<exit, frames, finishVars>>
    /\ UNCHANGED <<closed, authIO, ka_frames, nameVars, build, repo_token>>
    /\ UNCHANGED <<buildVars, probeVars, gaugeVars, bmetrics, lmetrics, launchVars, tailVars>>

\* provider = self.get_provider(...) and provider.is_banned()
GetProvider ==
    /\ pc = "provider"
    /\ \E outcome \in {"exception", "banned", "ok"} :
        CASE outcome = "exception" -> EmitAndReturn(FailFrame)
          [] outcome = "banned" -> EmitAndReturn(Frame("get", "failed"))
          [] outcome = "ok" -> /\ pc' = "auth"
                               /\ UNCHANGED <<exit, frames, finishVars>>
    /\ UNCHANGED <<closed, sideVars, build, repo_token>>
    /\ UNCHANGED <<buildVars, probeVars, gaugeVars, bmetrics, lmetrics, launchVars, tailVars>>

\* The auth block of get.  has_id: get_authorization_provider() is not None;
\* userctx, req_token: the query argument is present; stored: the token the
\* store has for the user ("none", "valid", or "invalid": fails validation).
\* The result is "TypeError" (None += '-' + userctx), "auth" (the auth frame
\* is emitted) or the value self.repo_token gets.
AuthResultStoredFirst(has_id, userctx, enabled, stored, req_token) ==
    IF userctx /\ ~has_id THEN "TypeError"
    ELSE IF has_id /\ enabled
         THEN IF stored = "valid" THEN "stored"
              ELSE IF req_token THEN "request"
              ELSE "auth"
         ELSE "None"

AuthResult(has_id, userctx, enabled, stored, req_token) ==
    IF userctx /\ ~has_id THEN "TypeError"
    ELSE IF has_id /\ enabled
         THEN IF req_token THEN "request"
              ELSE IF stored # "valid" THEN "auth"
              ELSE "stored"
         ELSE "None"

\* the request's arguments and the token store's answer, as the auth block
\* is about to read them
AuthInputs ==
    [has_id : BOOLEAN, userctx : BOOLEAN, enabled : BOOLEAN, req_token : BOOLEAN,
     stored : {"none", "valid", "invalid"}]

AuthArrives ==
    /\ pc = "auth"
    /\ auth_in = NoInput
    /\ auth_in' \in AuthInputs
    /\ UNCHANGED <<pc, exit, frames, closed, build, finishVars, repo_token, registered>>
    /\ UNCHANGED <<ka_pc, ka_frames, nameVars>>
    /\ UNCHANGED <<buildVars, probeVars, gaugeVars, bmetrics, lmetrics, launchVars, tailVars>>

Auth ==
    /\ pc = "auth"
    /\ auth_in # NoInput
    /\ auth_in' = NoInput
    /\ LET r == AuthResult(auth_in.has_id, auth_in.userctx, auth_in.enabled,
                           auth_in.stored, auth_in.req_token)
       IN  CASE r = "TypeError" ->
                    /\ Ends("error", frames, build)
                    /\ UNCHANGED <<repo_token, registered>>
              [] r = "auth" ->
                    /\ EmitAndReturn(Frame("get", "auth"))
                    /\ UNCHANGED <<repo_token, registered>>
              [] OTHER ->
                    /\ repo_token' = r
                    /\ registered' = (r = "request")
                    /\ pc' = "resolve"
                    /\ UNCHANGED <<exit, frames, finishVars>>
    /\ UNCHANGED <<closed, ka_pc, ka_frames, nameVars, build>>
    /\ UNCHANGED <<buildVars, probeVars, gaugeVars, bmetrics, lmetrics, launchVars, tailVars>>

\* ref = await provider.get_resolved_ref()
ResolveRef ==
    /\ pc = "resolve"
    /\ \E outcome \in {"exception", "None", "ref"} :
        IF outcome = "ref"
        THEN /\ pc' = "probe"
             /\ UNCHANGED <<exit, frames, finishVars>>
        ELSE EmitAndReturn(FailFrame)
    /\ UNCHANGED <<closed, sideVars, build, repo_token>>
    /\ UNCHANGED <<buildVars, probeVars, gaugeVars, bmetrics, lmetrics, launchVars, tailVars>>

\* ---------------------------------------------------------------- probe
\* the registry answers a call of get_image_manifest: a manifest, an empty
\* manifest, a transport error (HTTPClientError) or another error
RegistryReply ==
    /\ pc \in {"probe", "probe_registry"}
    /\ reply = "none"
    /\ reply' \in {"manifest", "empty", "HTTPClientError", "error"}
    /\ UNCHANGED <<pc, exit, frames, closed, sideVars, build, finishVars, repo_token>>
    /\ UNCHANGED <<image_found, probe_try>>
    /\ UNCHANGED <<buildVars, gaugeVars, bmetrics, lmetrics, launchVars, tailVars>>

\* use_registry: one pass of `for _ in range(3)` once the call of
\* registry.get_image_manifest is answered; HTTPClientError is caught,
\* anything else propagates.  probe_try counts the passes made; the loop's
\* iterator ends with the loop.
ProbeRegistry ==
    /\ pc \in {"probe", "probe_registry"}
    /\ reply # "none"
    /\ reply' = "none"
    /\ CASE reply = "manifest" ->
                /\ image_found' = TRUE
                /\ probe_try' = 0
                /\ pc' = "probed"
                /\ UNCHANGED <<exit, frames, finishVars>>
         [] reply = "empty" ->
                /\ image_found' = FALSE
                /\ probe_try' = 0
                /\ pc' = "probed"
                /\ UNCHANGED <<exit, frames, finishVars>>
         [] reply = "HTTPClientError" ->
                /\ image_found' = FALSE
                /\ IF ProbeAgain(probe_try + 1)
                   THEN pc' = "probe_registry" /\ probe_try' = probe_try + 1
                   ELSE pc' = "probed" /\ probe_try' = 0
                /\ UNCHANGED <<exit, frames, finishVars>>
         [] reply = "error" ->
                /\ Ends("error", frames, build)
                /\ probe_try' = 0
                /\ UNCHANGED image_found
    /\ UNCHANGED <<closed, sideVars, build, repo_token>>
    /\ UNCHANGED <<buildVars, gaugeVars, bmetrics, lmetrics, launchVars, tailVars>>

\* not use_registry: docker_client.images.get(image_name)
ProbeLocal ==
    /\ pc = "probe"
    /\ reply = "none"
    /\ \E outcome \in {"found", "ImageNotFound", "error"} :
        IF outcome = "error"
        THEN /\ Ends("error", frames, build)
             /\ UNCHANGED image_found
        ELSE /\ image_found' = (outcome = "found")
             /\ pc' = "probed"
             /\ UNCHANGED <<exit, frames, finishVars>>
    /\ UNCHANGED <<closed, sideVars, build, repo_token, probe_try, reply>>
    /\ UNCHANGED <<buildVars, gaugeVars, bmetrics, lmetrics, launchVars, tailVars>>

\* if image_found: emit 'built', then launch() is entered inside
\* LAUNCHES_INPROGRESS.track_inprogress() and awaits the pod list
FoundImage ==
    /\ pc = "probed"
    /\ ImageHit(image_found)
    /\ IF closed
       THEN /\ Ends("finish", Append(frames, Frame("get", "built")), build)
            /\ UNCHANGED inprogress_launches
       ELSE /\ frames' = Append(frames, Frame("get", "built"))
            /\ inprogress_launches' = TrackEnter(inprogress_launches)
            /\ pc' = "launch_list"
            /\ UNCHANGED <<exit, finishVars>>
    /\ UNCHANGED <<closed, sideVars, build, repo_token, inprogress_builds>>
    /\ UNCHANGED <<buildVars, probeVars, bmetrics, lmetrics, launchVars, tailVars>>

\* ------------------------------------------------------------ the build
\* self.build = BuildClass(...); with BUILDS_INPROGRESS.track_inprogress():
\* pool.submit(build.submit); emit 'waiting'
StartBuild ==
    /\ pc = "probed"
    /\ ~ImageHit(image_found)
    /\ build' = TRUE
    /\ IF closed
       THEN /\ Ends("finish", Append(frames, Frame("get", "waiting")), TRUE)
            /\ inprogress_builds' = TrackExit(TrackEnter(inprogress_builds))
       ELSE /\ frames' = Append(frames, Frame("get", "waiting"))
            /\ inprogress_builds' = TrackEnter(inprogress_builds)
            /\ pc' = "build_loop"
            /\ UNCHANGED <<exit, finishVars>>
    /\ UNCHANGED <<closed, sideVars, repo_token, inprogress_launches>>
    /\ UNCHANGED <<buildVars, probeVars, bmetrics, lmetrics, launchVars, tailVars>>

\* the phase changes of the build loop that `continue` without a frame
IsSilentPendingOnly(progress) ==
    /\ progress.kind = "pod.phasechange"
    /\ progress.payload = "Pending"

IsSilent(progress) ==
    /\ progress.kind = "pod.phasechange"
    /\ progress.payload \in {"Pending", "Running", "Succeeded"}

\* elif progress['payload'] == 'Deleted': ... done = True
IsDeleted(progress) ==
    progress.kind = "pod.phasechange" /\ progress.payload = "Deleted"

\* the event of one loop pass that reaches `await self.emit(event)`
EventOf(progress) ==
    IF progress.kind = "log" THEN Frame("log", progress.payload.phase)
    ELSE IF progress.payload = "Deleted" THEN Frame("get", "built")
    ELSE Frame("pod", progress.payload)

\* if log_future is None: log_future = pool.submit(build.stream_logs)
SubmitLogsEvery(progress, n) ==
    IF progress.kind = "pod.phasechange" /\ progress.payload = "Running"
    THEN n + 1 ELSE n

SubmitLogs(progress, n) ==
    IF progress.kind = "pod.phasechange" /\ progress.payload = "Running" /\ n = 0
    THEN n + 1 ELSE n

\* one pass of `while not done`: progress = await q.get(), to the next await
QGet ==
    /\ pc = "build_loop"
    /\ q # <<>>
    /\ LET progress == Head(q)
           fails == progress.kind = "log" /\ IsFailurePhase(progress.payload.phase)
       IN  /\ q' = Tail(q)
           /\ log_future' = SubmitLogs(progress, log_future)
           /\ failed' = (failed \/ fails)
           /\ done' = (done \/ IsDeleted(progress))
           /\ build_time' = IF fails THEN Append(build_time, "failure") ELSE
                            IF IsDeleted(progress) /\ ~closed /\ ShouldLaunch(failed)
                            THEN Append(build_time, "success") ELSE build_time
           /\ build_count' = IF fails THEN Append(build_count, "failure") ELSE
                             IF IsDeleted(progress) /\ ~closed /\ ShouldLaunch(failed)
                             THEN Append(build_count, "success") ELSE build_count
           /\ IF IsSilent(progress)
              THEN UNCHANGED <<pc, exit, frames, finishVars, gaugeVars>>
              ELSE IF closed
              THEN \* emit raises Finish inside the with block
                   /\ Ends("finish", Append(frames, EventOf(progress)), build)
                   /\ inprogress_builds' = TrackExit(inprogress_builds)
                   /\ UNCHANGED inprogress_launches
              ELSE IF ~IsDeleted(progress)
              THEN /\ frames' = Append(frames, EventOf(progress))
                   /\ UNCHANGED <<pc, exit, finishVars, gaugeVars>>
              ELSE \* done: the with block is left; launch unless failed
                   /\ frames' = Append(frames, EventOf(progress))
                   /\ inprogress_builds' = TrackExit(inprogress_builds)
                   /\ UNCHANGED <<exit, finishVars>>
                   /\ IF ShouldLaunch(failed)
                      THEN /\ inprogress_launches' = TrackEnter(inprogress_launches)
                           /\ pc' = "launch_list"
                      ELSE /\ pc' = "tail_sleep"
                           /\ UNCHANGED inprogress_launches
    /\ UNCHANGED <<closed, sideVars, nput, build, repo_token>>
    /\ UNCHANGED <<probeVars, lmetrics, launchVars, tailVars>>

\* ------------------------------------------------------------ the launch
\* get after `await self.launch(kube, provider)` has returned: the with
\* block of LAUNCHES_INPROGRESS is left, the audit record is emitted, then
\* `return` (image found) or the tail sleep (image built)
LaunchReturns(written) ==
    /\ inprogress_launches' = TrackExit(inprogress_launches)
    /\ audit' = audit + 1
    /\ UNCHANGED tail_slept
    /\ IF image_found
       THEN Ends("return", written, build)
       ELSE /\ pc' = "tail_sleep"
            /\ frames' = written
            /\ UNCHANGED <<exit, finishVars>>

\* an exception leaves launch() and get: Finish from emit, or the error of
\* the launch
LaunchRaises(how, written) ==
    /\ inprogress_launches' = TrackExit(inprogress_launches)
    /\ Ends(how, written, build)
    /\ UNCHANGED tailVars

\* launch() from the pod list to the 'launching' frame: count the pods of
\* this image, check the quota
LaunchList ==
    /\ pc = "launch_list"
    /\ \E pods \in SeqsUpTo(PodKinds, MaxPods), qu \in 0..MaxPods :
        LET m == MatchingPods(pods)
        IN  /\ quota' = qu
            /\ matching_pods' = m
            /\ IF QuotaExceeded(qu, m)
               THEN IF closed
                    THEN /\ LaunchRaises("finish", Append(frames, FailFrame))
                         /\ launch_ends' = "finish"
                    ELSE /\ LaunchReturns(Append(frames, FailFrame))
                         /\ launch_ends' = "quota"
               ELSE IF closed
                    THEN /\ LaunchRaises("finish", frames \o LaunchingFrames)
                         /\ launch_ends' = "finish"
                    ELSE /\ frames' = frames \o LaunchingFrames
                         /\ pc' = "launch_try"
                         /\ UNCHANGED <<exit, finishVars, inprogress_launches, tailVars,
                                        launch_ends>>
    /\ UNCHANGED <<closed, sideVars, build, repo_token, inprogress_builds>>
    /\ UNCHANGED <<i, launch_calls, launch_ok, retry_delay, sleeps, launch_args>>
    /\ UNCHANGED <<buildVars, probeVars, bmetrics, lmetrics>>

\* if status == 'failure': LAUNCH_COUNT.labels(status=status, ...).inc()
CountsFailureAlways(status) == TRUE
CountsFailure(status) == status = "failure"

\* status of a raising attempt
FailStatusRetry(n) == "retry"
FailStatus(n) == IF IsLastAttempt(n) THEN "failure" ELSE "retry"

\* one pass of `for i in range(launcher.retries)`: await launcher.launch(...)
\* and what follows it, to the next await
LaunchAttempt ==
    /\ pc = "launch_try"
    /\ launch_calls' = launch_calls + 1
    /\ \E ok \in BOOLEAN :
        IF ok
        THEN \* else: success ... break; emit 'ready'
             /\ launch_ok' = TRUE
             /\ launch_time' = Append(launch_time, [status |-> "success", retries |-> i])
             /\ launch_count' = Append(launch_count, "success")
             /\ IF closed
                THEN /\ LaunchRaises("finish", Append(frames, Frame("launch", "ready")))
                     /\ launch_ends' = "finish"
                ELSE /\ LaunchReturns(Append(frames, Frame("launch", "ready")))
                     /\ launch_ends' = "ready"
        ELSE \* except Exception as e
             /\ UNCHANGED launch_ok
             /\ launch_time' = Append(launch_time, [status |-> FailStatus(i), retries |-> -1])
             /\ launch_count' = IF CountsFailure(FailStatus(i))
                                THEN Append(launch_count, "failure") ELSE launch_count
             /\ IF IsLastAttempt(i)
                THEN \* emit 'failed'; raise
                     /\ LaunchRaises(IF closed THEN "finish" ELSE "error",
                                     Append(frames, Frame("launch", "failed")))
                     /\ launch_ends' = IF closed THEN "finish" ELSE "raised"
                ELSE \* emit 'Launch attempt i+1 failed, retrying...'
                     IF closed
                     THEN /\ LaunchRaises("finish",
                                 Append(frames, FrameN("retry", "launching", i + 1)))
                          /\ launch_ends' = "finish"
                     ELSE /\ frames' = Append(frames, FrameN("retry", "launching", i + 1))
                          /\ pc' = "launch_sleep"
                          /\ UNCHANGED <<exit, finishVars, inprogress_launches, tailVars,
                                         launch_ends>>
    /\ UNCHANGED <<closed, sideVars, build, repo_token, inprogress_builds>>
    /\ UNCHANGED <<quota, matching_pods, i, retry_delay, sleeps>>
    /\ launch_args' = Append(launch_args, repo_token)
    /\ UNCHANGED <<buildVars, probeVars, bmetrics>>

\* await gen.sleep(retry_delay); retry_delay *= 2; continue.  When the loop
\* runs out without a success, server_info is unbound at the 'ready' event
LaunchSleep ==
    /\ pc = "launch_sleep"
    /\ sleeps' = Append(sleeps, retry_delay)
    /\ retry_delay' = Backoff(retry_delay)
    /\ i' = i + 1
    /\ IF i + 1 < Retries
       THEN /\ pc' = "launch_try"
            /\ UNCHANGED <<exit, frames, finishVars, inprogress_launches, tailVars,
                           launch_ends>>
       ELSE /\ LaunchRaises("error", frames)
            /\ launch_ends' = "raised"
    /\ UNCHANGED <<closed, sideVars, build, repo_token, inprogress_builds>>
    /\ UNCHANGED <<quota, matching_pods, launch_calls, launch_ok, launch_args>>
    /\ UNCHANGED <<buildVars, probeVars, bmetrics, lmetrics>>

\* await gen.sleep(60), then get returns
TailSleep ==
    /\ pc = "tail_sleep"
    /\ tail_slept' = TRUE
    /\ Ends("return", frames, build)
    /\ UNCHANGED <<closed, sideVars, build, repo_token, audit>>
    /\ UNCHANGED <<buildVars, probeVars, gaugeVars, bmetrics, lmetrics, launchVars>>

\* ------------------------------------------------------- the keepalive task
\* The callback spawned by spawn_callback(self.keep_alive) runs on the loop
\* whenever the handler is suspended or has ended: the handler's awaits on
\* finished futures do not yield, so get may have returned and on_finish may
\* have run before the task runs for the first time.

\* keep_alive up to its first await: self._keepalive = True; gen.sleep(25)
KeepAliveStart ==
    /\ ka_pc = "spawned"
    /\ keepalive' = "true"
    /\ ka_pc' = "sleeping"
    /\ UNCHANGED <<pc, exit, frames, closed, build, build_stops, repo_token>>
    /\ UNCHANGED <<authIO, ka_frames, nameVars>>
    /\ UNCHANGED <<buildVars, probeVars, gaugeVars, bmetrics, lmetrics, launchVars, tailVars>>

\* if not self._keepalive: return
KeepAliveStopped(flag) == flag # "true"

\* one wake-up of the loop of keep_alive: return when the flag is down;
\* otherwise write ':keepalive' and flush, and return on StreamClosedError.
\* RequestHandler.write raises RuntimeError on a finished response, which
\* keep_alive does not catch: the task ends with it, nothing is written.
KeepAliveWake ==
    /\ ka_pc = "sleeping"
    /\ IF KeepAliveStopped(keepalive)
       THEN /\ ka_pc' = "returned"
            /\ UNCHANGED ka_frames
       ELSE IF pc = "done"
       THEN /\ ka_pc' = "raised"
            /\ UNCHANGED ka_frames
       ELSE /\ (ka_frames < MaxKeepalives \/ closed)
            /\ ka_frames' = ka_frames + 1
            /\ ka_pc' = IF closed THEN "returned" ELSE "sleeping"
    /\ UNCHANGED <<pc, exit, frames, closed, build, finishVars, repo_token>>
    /\ UNCHANGED <<authIO, nameVars>>
    /\ UNCHANGED <<buildVars, probeVars, gaugeVars, bmetrics, lmetrics, launchVars, tailVars>>

Next ==
    \/ ClientDisconnect
    \/ BuilderPut
    \/ ProviderCheck
    \/ GetProvider
    \/ AuthArrives
    \/ Auth
    \/ ResolveRef
    \/ RegistryReply
    \/ ProbeRegistry
    \/ ProbeLocal
    \/ FoundImage
    \/ StartBuild
    \/ QGet
    \/ LaunchList
    \/ LaunchAttempt
    \/ LaunchSleep
    \/ TailSleep

\* the handler alone: the keepalive task is spawned and never scheduled.
\* The task reads nothing but self._keepalive and the state of the response,
\* and writes nothing the handler reads.
Spec == Init /\ [][Next]_vars

\* get, lines 340-351: safe_build_slug, build_name and image_name
MakeNames ==
    /\ pc = "names"
    /\ pc' = "named"
    /\ build_name_len' = generate_build_name_len(name_in.slug, name_in.ref, BuildPrefixLen,
                                                 BuildNameLimit, RefLength)
    /\ image_name_len' = image_name_len_of(name_in.prefix_len, name_in.slug, name_in.ref)
    /\ UNCHANGED <<exit, frames, closed, build, finishVars, repo_token, name_in>>
    /\ UNCHANGED <<authIO, ka_pc, ka_frames>>
    /\ UNCHANGED <<buildVars, probeVars, gaugeVars, bmetrics, lmetrics, launchVars, tailVars>>

NextNames == MakeNames

SpecNames == InitNames /\ [][NextNames]_vars

\* the handler together with its keepalive task
NextKeepAlive ==
    \/ Next
    \/ KeepAliveStart
    \/ KeepAliveWake

SpecKeepAlive == Init /\ [][NextKeepAlive]_vars

\* a step of the handler's coroutine
HandlerStep ==
    \/ ProviderCheck
    \/ GetProvider
    \/ Auth
    \/ ResolveRef
    \/ ProbeRegistry
    \/ ProbeLocal
    \/ FoundImage
    \/ StartBuild
    \/ QGet
    \/ LaunchList
    \/ LaunchAttempt
    \/ LaunchSleep
    \/ TailSleep

\* The IOLoop resumes a coroutine whose awaited future is done and fires the
\* timers of gen.sleep; the calls the handler awaits (token store, registry)
\* are answered.  Nothing is assumed of the client and of the builder: the
\* client need not disconnect, the builder need not put another event.
Fairness ==
    /\ WF_vars(HandlerStep)
    /\ WF_vars(KeepAliveStart)
    /\ WF_vars(KeepAliveWake)
    /\ WF_vars(AuthArrives)
    /\ WF_vars(RegistryReply)

SpecLive == Init /\ [][NextKeepAlive]_vars /\ Fairness

TypeOK ==
    /\ pc \in {"start", "provider", "auth", "resolve", "probe", "probe_registry", "probed",
               "build_loop", "launch_list", "launch_try", "launch_sleep", "tail_sleep",
               "done", "names", "named"}
    /\ exit \in {"none", "return", "finish", "error"}
    /\ (pc = "done") = (exit # "none")
    /\ closed \in BOOLEAN
    /\ Len(q) <= MaxEvents
    /\ i \in 0..Retries

\* ------------------------------------------------------------ the claims
FrameIdx == 1..Len(frames)
Written(f) == \E k \in FrameIdx : frames[k] = f
WrittenBy(srcs) == \E k \in FrameIdx : frames[k].src \in srcs
TerminalCount == Cardinality({k \in FrameIdx : IsTerminal(frames[k])})
FailureLogWritten ==
    \E k \in FrameIdx : frames[k].src = "log" /\ frames[k].phase \in {"failure", "failed"}
InLaunch == pc \in {"launch_list", "launch_try", "launch_sleep"}
\* launch() has got the pod list and decided on the quota
Listed == pc \in {"launch_try", "launch_sleep"} \/ launch_ends # "none"

\* C1: a request that runs to completion (get returned, or raised an
\* exception that send_error reported) has written exactly one terminal
\* frame, of phase 'ready' or 'failed'.  (A request that ends with the
\* 'auth' frame, to be repeated by the client once authorized, is left out:
\* it is the subject of C12.)
C1_OneTerminalFrame ==
    (pc = "done" /\ exit \in {"return", "error"} /\ ~Written(Frame("get", "auth")))
        => TerminalCount = 1

\* C2: once a frame of phase 'ready' or 'failed' is written, no data frame
\* is written after it: a terminal frame is the last frame of the stream.
C2_TerminalFrameIsLast ==
    \A k \in FrameIdx : IsTerminal(frames[k]) => k = Len(frames)

\* C3: a stream with a 'ready' frame reads: at most one 'waiting' frame
\* (the first), then pod-phase and log frames, then exactly one 'built'
\* frame, then at least one 'launching' frame, then 'ready' as the last.
C3_ReadyOrder ==
    Written(Frame("launch", "ready")) =>
        \E b \in FrameIdx :
            /\ frames[b] = Frame("get", "built")
            /\ \A k \in 1..(b - 1) :
                \/ k = 1 /\ frames[k] = Frame("get", "waiting")
                \/ frames[k].src \in {"pod", "log"}
            /\ b + 1 < Len(frames)
            /\ \A k \in (b + 1)..(Len(frames) - 1) :
                frames[k].phase = "launching" /\ frames[k].src \in {"launch", "retry"}
            /\ frames[Len(frames)] = Frame("launch", "ready")

C3_Witness ==
    /\ Written(Frame("launch", "ready"))
    /\ Written(Frame("get", "waiting"))
    /\ WrittenBy({"log"})
    /\ WrittenBy({"pod"})
    /\ WrittenBy({"retry"})

\* C4: each gauge counts the handlers inside its section: inprogress_builds
\* is 1 exactly while the handler is in the build loop, inprogress_launches
\* is 1 exactly while it is in launch(), and both are back at their value
\* of before the request (0) once the handler has ended, however it ended.
C4_GaugeBalance ==
    /\ inprogress_builds = IF pc = "build_loop" THEN 1 ELSE 0
    /\ inprogress_launches = IF InLaunch THEN 1 ELSE 0

\* a handler that built, entered launch() and left it by the exception of
\* the last failed attempt
C4_Witness ==
    /\ pc = "done"
    /\ exit = "error"
    /\ build
    /\ launch_ends = "raised"
    /\ inprogress_builds = 0
    /\ inprogress_launches = 0

\* C5: when a log event of phase 'failure' or 'failed' has been consumed,
\* launch() is never entered: no call of launcher.launch, no frame of
\* launch(), no launch_count or launch_time observation.
C5_FailedBuildNeverLaunches ==
    FailureLogWritten =>
        /\ ~InLaunch
        /\ launch_ends = "none"
        /\ launch_calls = 0
        /\ ~WrittenBy({"launch", "retry"})
        /\ launch_time = <<>>
        /\ launch_count = <<>>

\* the build loop has ended (Deleted consumed) after a failure log and the
\* handler has returned
C5_Witness ==
    /\ FailureLogWritten
    /\ done
    /\ pc = "done"
    /\ exit = "return"

\* C6: after a log frame of phase 'failure' or 'failed' the build driver
\* writes no further frame: that log frame is the last frame.
C6_NoFrameAfterFailureLog ==
    \A k \in FrameIdx :
        (frames[k].src = "log" /\ frames[k].phase \in {"failure", "failed"})
            => k = Len(frames)

\* C7: with a quota configured (quota > 0) and at least quota matching
\* pods, launch() writes the 'failed' frame of fail(), never calls
\* launcher.launch, writes no 'launching' or 'ready' frame and records no
\* launch_time; with fewer matching pods, or no quota, the launch goes on
\* to its 'launching' frame.
C7_QuotaBlocksLaunch ==
    Listed =>
        IF quota > 0 /\ matching_pods >= quota
        THEN /\ launch_ends \in {"quota", "finish"}
             /\ Written(FailFrame)
             /\ launch_calls = 0
             /\ ~WrittenBy({"launch", "retry"})
             /\ launch_time = <<>>
        ELSE /\ Written(Frame("launch", "launching"))
             /\ ~Written(FailFrame)

C7_Witness ==
    /\ Listed
    /\ quota = 1
    /\ matching_pods = 1
    /\ launch_ends = "quota"
    /\ pc = "done"

\* C8: the audit record with status 'success' is emitted if and only if
\* the launch succeeded: launch() returned after writing its 'ready' frame.
C8_AuditIffReady ==
    (audit > 0) <=> (launch_ends = "ready" /\ Written(Frame("launch", "ready")))

C10_RegistryProbe ==
    [][/\ (reply # "none" /\ reply' = "none") =>
            /\ probe_try < ProbeAttempts
            /\ reply = "manifest" => (pc' = "probed" /\ image_found')
            /\ reply = "empty" => (pc' = "probed" /\ ~image_found')
            /\ reply = "HTTPClientError" =>
                /\ ~image_found'
                /\ exit' = "none"
                /\ frames' = frames
                /\ IF probe_try + 1 < ProbeAttempts
                   THEN pc' = "probe_registry" /\ probe_try' = probe_try + 1
                   ELSE pc' = "probed"
       /\ (pc = "probed" /\ ~image_found /\ pc' # pc) =>
            /\ build'
            /\ exit' \in {"none", "finish"}
            /\ pc' = (IF exit' = "none" THEN "build_loop" ELSE "done")
      ]_vars

\* two transport errors have been caught and the third call is answered
\* with a transport error too
C10_Witness ==
    /\ pc = "probe_registry"
    /\ probe_try = ProbeAttempts - 1
    /\ reply = "HTTPClientError"

\* C11: when the probe has reported the image as found, the request writes
\* the 'built' frame as its first frame and goes directly to launch(): no
\* Build object is created, no event of a build is put or consumed, no
\* stream_logs is submitted, no 'waiting' frame is written, inprogress_builds
\* stays at its value and no build_time or build_count observation is
\* recorded; a Build object exists only when the probe reported not found.
C11_HitSkipsBuild ==
    /\ (image_found /\ pc # "probed") =>
        /\ pc \in {"launch_list", "launch_try", "launch_sleep", "done"}
        /\ frames # <<>>
        /\ frames[1] = Frame("get", "built")
        /\ ~Written(Frame("get", "waiting"))
        /\ ~build
        /\ build_stops = 0
        /\ nput = 0
        /\ log_future = 0
        /\ inprogress_builds = 0
        /\ build_time = <<>>
        /\ build_count = <<>>
    /\ build => ~image_found

\* the image was found and the request ran to its 'ready' frame
C11_Witness ==
    /\ image_found
    /\ pc = "done"
    /\ exit = "return"
    /\ frames[Len(frames)] = Frame("launch", "ready")

\* what holds of a request after its auth block
C12_AuthInv ==
    /\ registered => (repo_token = "request" /\ ~Written(Frame("get", "auth")))
    /\ Len(launch_args) = launch_calls
    /\ \A k \in 1..Len(launch_args) : launch_args[k] = repo_token
    /\ Written(Frame("get", "auth")) =>
        /\ frames = <<Frame("get", "auth")>>
        /\ pc = "done"
        /\ exit \in {"return", "finish"}
        /\ repo_token = "unset"
        /\ reply = "none"
        /\ ~image_found
        /\ ~build
        /\ nput = 0
        /\ launch_calls = 0
        /\ launch_ends = "none"
        /\ audit = 0

\* the step of the auth block, by what it read
C12_AuthStep ==
    (auth_in # NoInput /\ auth_in' = NoInput /\ auth_in.has_id /\ auth_in.enabled) =>
        IF auth_in.req_token
        THEN /\ registered'
             /\ repo_token' = "request"
             /\ frames' = frames
             /\ pc' = "resolve"
        ELSE IF auth_in.stored # "valid"
        THEN /\ frames' = <<Frame("get", "auth")>>
             /\ pc' = "done"
             /\ ~registered'
        ELSE /\ repo_token' = "stored"
             /\ frames' = frames

\* C12: with auth enabled and an authorization provider id: a request that
\* carries repo_token has the token registered, writes no 'auth' frame, goes
\* on to resolve the ref, and every call of launcher.launch is passed that
\* token; a request without repo_token whose stored token is missing or
\* fails validation writes the 'auth' frame as its only frame and ends: no
\* ref resolved, no probe, no build, no launch.
C12_AuthFlow == []C12_AuthInv /\ [][C12_AuthStep]_vars

\* a request with repo_token whose token reached launcher.launch
C12_Witness ==
    /\ registered
    /\ launch_calls > 0
    /\ launch_args[1] = "request"
    /\ launch_ok

\* a step in which emit is called (send_error writes without emit)
EmitStep ==
    /\ Len(frames') > Len(frames)
    /\ frames'[Len(frames) + 1].src # "send_error"

\* the step of an emit that finds the connection closed
C13_ClosedEmitStep ==
    (EmitStep /\ closed) =>
        /\ Len(frames') = Len(frames) + 1
        /\ pc' = "done"
        /\ exit' = "finish"
        /\ build_stops' = IF build' THEN build_stops + 1 ELSE build_stops
        /\ audit' = audit
        /\ tail_slept' = tail_slept
        /\ inprogress_builds' = 0
        /\ inprogress_launches' = 0
        /\ frames'[Len(frames')] = Frame("get", "built") =>
                (bmetrics' = bmetrics /\ lmetrics' = lmetrics /\ launch_calls' = launch_calls)

\* nothing of the request moves once Finish has ended it
C13_AfterFinish ==
    exit = "finish" =>
        UNCHANGED <<pc, exit, frames, build_stops, launch_calls, audit, tail_slept,
                    gaugeVars, bmetrics, lmetrics>>

\* C13: when emit finds the client connection closed, the handler ends with
\* that frame: no further data frame is written, no launch, audit, metric or
\* tail step runs after it, the gauges are released, and build.stop() is
\* called once if a Build object exists.
C13_ClosedEmitEnds == [][C13_ClosedEmitStep /\ C13_AfterFinish]_vars

\* the client went away during a build; the handler ended at its next emit
C13_Witness ==
    /\ exit = "finish"
    /\ build
    /\ build_stops = 1
    /\ frames[Len(frames)].src \in {"log", "pod"}

C15_TailDelayAfterReady ==
    (pc = "done" /\ exit = "return" /\ Written(Frame("launch", "ready"))) => tail_slept

\* C16: for every build slug and every ref, the name that
\* _generate_build_name(slug, ref, prefix='build-') returns (limit 63,
\* ref_length 6, hash lengths 6 and 2) has at most 63 characters.
C16_BuildNameLength ==
    pc = "named" => (build_name_len >= 0 /\ build_name_len <= BuildNameLimit)

\* a slug whose escaped form alone is longer than the limit, a ref longer
\* than ref_length: the name has exactly 63 characters
C16_Witness ==
    /\ pc = "named"
    /\ EscapeLen(name_in.slug) > BuildNameLimit
    /\ StrLen(name_in.ref) > RefLength
    /\ build_name_len = BuildNameLimit

\* C17: for every image prefix, build slug and resolved ref, the image name
\* image_prefix + _safe_build_slug(slug, limit=255-len(image_prefix)) + ':'
\* + ref has at most 255 characters.
C17_ImageNameLength ==
    pc = "named" => image_name_len <= ImageNameLimit

\* C18: a request whose build loop has consumed a Deleted phase change (and
\* was not ended by a closed connection) has recorded exactly one
\* build_count increment and one build_time observation: of status
\* 'failure' when a failure/failed log event was consumed, of status
\* 'success' otherwise, however many failure log events there were.
C18_OneBuildObservation ==
    (done /\ exit # "finish") =>
        /\ build_count = <<IF failed THEN "failure" ELSE "success">>
        /\ build_time = <<IF failed THEN "failure" ELSE "success">>

\* the handler takes the first event off the queue
Consumes == q # <<>> /\ q' = Tail(q)

BuiltCount == Cardinality({k \in FrameIdx : frames[k] = Frame("get", "built")})

\* one event consumed: the frame written for it, by its kind
C19_Step ==
    Consumes =>
        LET e == Head(q)
        IN  /\ pc = "build_loop"
            /\ ~done
            /\ done' = (e.kind = "pod.phasechange" /\ e.payload = "Deleted")
            /\ frames' =
                    IF e.kind = "log" THEN Append(frames, Frame("log", e.payload.phase))
                    ELSE IF e.payload \in {"Pending", "Running", "Succeeded"} THEN frames
                    ELSE IF e.payload = "Deleted" THEN Append(frames, Frame("get", "built"))
                    ELSE Append(frames, Frame("pod", e.payload))
            /\ (~closed /\ ~done') => pc' = "build_loop"
            /\ done' => pc' # "build_loop"

\* a build has one 'built' frame once Deleted is consumed and none before
C19_Built == build => BuiltCount = (IF done THEN 1 ELSE 0)

\* C19: the build driver consumes the events of the queue in order and
\* writes no frame for the phase changes Pending, Running and Succeeded,
\* the payload of each log event, a frame {phase: p} for any other phase p
\* (and keeps consuming), and one 'built' frame on the first Deleted phase
\* change, after which no event is consumed.
C19_BuildDriverFrames == []C19_Built /\ [][C19_Step]_vars

\* Deleted was consumed after another phase and with an event behind it,
\* which stays on the queue
C19_Witness ==
    /\ done
    /\ q # <<>>
    /\ WrittenBy({"pod"})
    /\ BuiltCount = 1

RECURSIVE Pow2(_)
Pow2(n) == IF n = 0 THEN 1 ELSE 2 * Pow2(n - 1)

IsRetryFrame(f) == f.src = "retry"
RetryFrames == SelectSeq(frames, IsRetryFrame)
RetryAttempts == Cardinality({k \in 1..Len(launch_time) : launch_time[k].status = "retry"})

\* C20: in launch() the k-th attempt, when it fails and is not the last,
\* writes one 'launching' frame 'Launch attempt k failed, retrying...' and
\* is followed by a sleep of launcher.retry_delay * 2^(k-1) before attempt
\* k+1; there is no sleep before the first attempt, after an attempt that
\* succeeded and after the last attempt.
C20_RetryBackoff ==
    /\ Len(RetryFrames) = RetryAttempts
    /\ \A k \in 1..Len(RetryFrames) : RetryFrames[k] = FrameN("retry", "launching", k)
    /\ \A k \in 1..RetryAttempts : launch_time[k].status = "retry"
    /\ \A k \in 1..Len(sleeps) : sleeps[k] = RetryDelay * Pow2(k - 1)
    /\ retry_delay = RetryDelay * Pow2(Len(sleeps))
    /\ Len(sleeps) = IF pc = "launch_try" THEN launch_calls
                     ELSE IF launch_calls = 0 THEN 0
                     ELSE launch_calls - 1
    /\ Len(sleeps) = IF pc = "launch_sleep" \/ (exit = "finish" /\ launch_ends = "finish"
                                                  /\ frames[Len(frames)].src = "retry")
                     THEN RetryAttempts - 1
                     ELSE RetryAttempts

\* every attempt but the last failed and was followed by its sleep; the
\* last one succeeded
C20_Witness ==
    /\ launch_calls = Retries
    /\ launch_ok
    /\ Len(sleeps) = Retries - 1
    /\ Len(RetryFrames) = Retries - 1

\* C21: every call of launcher.launch records exactly one launch_time
\* observation: the k-th call (attempt index k-1), when it raised, records
\* status 'failure' if it was the last attempt (index launcher.retries - 1)
\* and status 'retry' otherwise, both with retries = -1; when it returned,
\* it records status 'success' with retries = k-1.
C21_LaunchTimePerCall ==
    /\ Len(launch_time) = launch_calls
    /\ \A k \in 1..launch_calls :
        launch_time[k] =
            IF k = launch_calls /\ launch_ok
            THEN [status |-> "success", retries |-> k - 1]
            ELSE IF k - 1 = Retries - 1
            THEN [status |-> "failure", retries |-> -1]
            ELSE [status |-> "retry", retries |-> -1]

\* all attempts but the last raised, the last returned: the observations
\* are 'retry' with -1 for each failure and 'success' with the last index
C21_Witness ==
    /\ launch_calls = Retries
    /\ launch_ok
    /\ launch_time[1] = [status |-> "retry", retries |-> -1]
    /\ launch_time[Retries] = [status |-> "success", retries |-> Retries - 1]

\* launch() was ended by a closed connection at the emit of a retry frame
CutAtRetry ==
    /\ launch_ends = "finish"
    /\ frames[Len(frames)].src = "retry"

\* C22, as the claim states it: an execution of launch() that has ended
\* and made at least one call of launcher.launch has incremented
\* launch_count exactly once, with status 'success' if an attempt succeeded
\* and 'failure' otherwise.
C22_CountOncePerLaunch ==
    (launch_ends # "none" /\ launch_calls >= 1) =>
        launch_count = <<IF launch_ok THEN "success" ELSE "failure">>

\* C22, amended: launch_count is never incremented for a failed attempt
\* that is not the last; it is incremented once with status 'success' by
\* the attempt that succeeds and once with status 'failure' by the last
\* attempt when it fails; so an execution of launch() that made at least
\* one call has incremented it exactly once when it ends, unless a closed
\* connection ended it at the emit of a retry frame: then not at all.
C22_CountOnceUnlessCut ==
    /\ launch_count = IF launch_ok THEN <<"success">>
                      ELSE IF launch_calls = Retries THEN <<"failure">>
                      ELSE <<>>
    /\ (launch_ends # "none" /\ launch_calls >= 1) =>
            Len(launch_count) = (IF CutAtRetry THEN 0 ELSE 1)

\* all attempts failed: the retries left launch_count alone, the last
\* attempt counted the failure
C22_Witness ==
    /\ launch_ends = "raised"
    /\ launch_calls = Retries
    /\ RetryAttempts = Retries - 1
    /\ launch_count = <<"failure">>

\* C23: when the client has disconnected while the handler is in the build
\* loop, the handler eventually ends with the keepalive stopped,
\* build.stop() called and inprogress_builds released; also when the
\* builder puts no further event on the queue.
C23_DisconnectStopsBuild ==
    (closed /\ pc = "build_loop") ~>
        (pc = "done" /\ keepalive = "false" /\ build_stops = 1 /\ inprogress_builds = 0)

\* C24: for a provider without an authorization provider id the auth block
\* writes nothing and the request goes on to resolve the ref with
\* repo_token = None, with or without a userctx argument: a userctx
\* argument does not make the request fail.
C24_NoAuthProviderSkipsAuth ==
    [][(auth_in # NoInput /\ auth_in' = NoInput /\ ~auth_in.has_id) =>
            /\ pc' = "resolve"
            /\ exit' = "none"
            /\ repo_token' = "None"
            /\ frames' = frames
      ]_vars

RunningEvent == [kind |-> "pod.phasechange", payload |-> "Running"]

\* stream_logs is submitted only by the first Running phase change
\* consumed; a later one changes nothing and writes nothing
C25_Step ==
    /\ log_future' # log_future =>
            /\ Consumes
            /\ Head(q) = RunningEvent
            /\ log_future = 0
            /\ log_future' = 1
    /\ (Consumes /\ Head(q) = RunningEvent) =>
            /\ frames' = frames
            /\ pc' = pc
            /\ log_future' = 1
            /\ UNCHANGED <<done, failed, build, exit, bmetrics, gaugeVars>>

\* C25: in one build, build.stream_logs is submitted to the pool at most
\* once and only when a Running phase change is consumed; a further Running
\* phase change leaves the state of the driver as it is and writes no frame.
C25_StreamLogsOnce == [](log_future <= 1) /\ [][C25_Step]_vars

\* stream_logs is submitted and another Running phase change is first on
\* the queue
C25_Witness ==
    /\ pc = "build_loop"
    /\ log_future = 1
    /\ q # <<>>
    /\ Head(q) = RunningEvent

====
